---- MODULE Spec2Model ----
(***************************************************************************)
(* Model of the hybrid retrieval pipeline of the legal-document system:    *)
(* RetrievalNode (workflows/nodes/retrieval.py), the vector store adapter  *)
(* (core/database/vector_store.py) and the BGE reranker wrapper            *)
(* (core/embeddings/reranker.py).                                          *)
(*                                                                         *)
(* Candidates are Python dicts: they are modelled as functions from key    *)
(* names to values, so that a missing key (dict.get with a default) is a   *)
(* key outside the DOMAIN.  Scores are in hundredths (1.0 is 100); every   *)
(* distance of the model is an even number of hundredths, so the mean of   *)
(* a lexical and a vector score is exact.                                  *)
(***************************************************************************)
EXTENDS Integers, Sequences, FiniteSets, TLC

VARIABLES
  pc,                \* the node of the retrieval graph that runs next
  limit,             \* state["limit"]
  model_available,   \* BGEReranker.model is not None
  postgres_results,  \* state["postgres_results"]
  vector_results,    \* state["vector_results"]
  hybrid_results,    \* state["hybrid_results"]
  reranked_results,  \* state["reranked_results"]
  final_results,     \* state["final_results"]
  error,             \* state["error"]
  faults,            \* the collaborator failures that happened in this run
  compute_scores,    \* what the cross-encoder returned, <<>> if it did not
  graph,             \* the legal graph that runs: "legal" or "conditional"
  lw_node,           \* the node of the legal graph that runs next
  legal_state,       \* the LegalWorkflowState of the run
  store_answer,      \* what the document store answers in this run
  index_answer,      \* what the vector store's collaborators answer in this run
  search_steps,      \* the steps of the two searches taken so far, in their order
  analysis_node,     \* the node of the analysis graph that runs next
  analysis_state     \* the AnalysisState of the run

(* the state of the legal graph around the retrieval graph *)
legal_vars == <<graph, lw_node, legal_state>>

(* the state of the analysis graph *)
analysis_vars == <<analysis_node, analysis_state>>

(* the answers of the store and of the index, where a run fixes them, and *)
(* the order the searches took                                            *)
answer_vars == <<store_answer, index_answer, search_steps>>

vars == <<pc, limit, model_available, postgres_results, vector_results,
          hybrid_results, reranked_results, final_results, error, faults,
          compute_scores, graph, lw_node, legal_state, store_answer,
          index_answer, search_steps, analysis_node, analysis_state>>

----------------------------------------------------------------------------
(* Bounds of the model *)

NumDocs == 3        \* documents known to the store and to the index: 1..NumDocs
MaxDocs == 2        \* most rows the store holds for a query, most hits of the index
MaxLimit == 3       \* largest limit a caller asks for
PreviewMargin == 13 \* content lengths range this far around the preview length
AnswerMaxDocs == 1  \* most rows and most hits where a run's answers are drawn at once

(* Distances the vector index reports, in hundredths; 120 is a distance *)
(* above 1, which an unbounded metric produces.                          *)
Distances == {20, 40, 120}

(* Relevance scores the cross-encoder reports, in hundredths *)
ModelScores == {-50, 50}

DocIds == 1..NumDocs

----------------------------------------------------------------------------
(* Python values *)

None == "None"

Min(a, b) == IF a <= b THEN a ELSE b

(* dict.get(k, d) *)
Get(r, k, d) == IF k \in DOMAIN r THEN r[k] ELSE d

(* d[k] = v *)
Put(r, k, v) == (k :> v) @@ r

(* s[:n] for n >= 0 *)
Take(s, n) == SubSeq(s, 1, Min(n, Len(s)))

(* str(n) of a primary key *)
Digits == <<"1", "2", "3", "4", "5", "6", "7", "8", "9">>
IdStr(n) == Digits[n]

(* the stored fields of document n *)
DocTitle(n) == <<"title", n>>
DocContent(n) == <<"text", n>>

(* Sequences over S without repetition, of length at most n *)
InjSeqs(S, n) ==
  UNION {{s \in [1..k -> S] : \A i, j \in 1..k : i # j => s[i] # s[j]} : k \in 0..n}

Ids(list) == [i \in 1..Len(list) |-> list[i]["id"]]

IdSet(list) == {list[i]["id"] : i \in 1..Len(list)}

----------------------------------------------------------------------------
(* list.sort(key, reverse=True): a stable sort, descending by key.        *)
(* SortedIdx(keys, n) is the order in which the first n positions come    *)
(* out: by key descending, equal keys in their original order.            *)

(* the insertion that puts a position before those of equal key *)
InsertDescBeforeEqual(sorted, i, keys) ==
  LET n == Cardinality({p \in 1..Len(sorted) : keys[sorted[p]] > keys[i]})
  IN  SubSeq(sorted, 1, n) \o <<i>> \o SubSeq(sorted, n + 1, Len(sorted))

InsertDesc(sorted, i, keys) ==
  LET n == Cardinality({p \in 1..Len(sorted) : keys[sorted[p]] >= keys[i]})
  IN  SubSeq(sorted, 1, n) \o <<i>> \o SubSeq(sorted, n + 1, Len(sorted))

RECURSIVE SortedIdx(_, _)
SortedIdx(keys, n) ==
  IF n = 0 THEN <<>> ELSE InsertDesc(SortedIdx(keys, n - 1), n, keys)

SortDesc(items, keys) ==
  LET order == SortedIdx(keys, Len(items))
  IN  [i \in 1..Len(items) |-> items[order[i]]]

----------------------------------------------------------------------------
(* the edges with combine_results wired to finalize_results *)
NextNodeSkipRerank(node) ==
  CASE node = "search_postgres" -> "search_vector"
    [] node = "search_vector" -> "combine_results"
    [] node = "combine_results" -> "finalize_results"
    [] node = "rerank_results" -> "finalize_results"
    [] node = "finalize_results" -> "done"

(* The edges of the retrieval graph (create_retrieval_workflow): the node *)
(* that runs after `node`; "done" is END.                                 *)
NextNode(node) ==
  CASE node = "search_postgres" -> "search_vector"
    [] node = "search_vector" -> "combine_results"
    [] node = "combine_results" -> "rerank_results"
    [] node = "rerank_results" -> "finalize_results"
    [] node = "finalize_results" -> "done"

----------------------------------------------------------------------------
(* Stage 1: lexical search *)

(* The rows the document store can hold for a query, in the store's order *)
StoreRows == InjSeqs(DocIds, MaxDocs)

(* db_manager.search_documents: offset 0, at most `n` rows *)
StoreSearch(rows, n) == Take(rows, n)

PostgresCandidate(n) ==
  [id |-> IdStr(n), title |-> DocTitle(n), content |-> DocContent(n),
   document_type |-> "law", category |-> "civil", source |-> "store",
   score |-> 100, search_type |-> "postgres"]

SearchPostgres ==
  /\ pc = "search_postgres"
  /\ \E ok \in BOOLEAN, rows \in StoreRows :
       IF ok
       THEN /\ postgres_results' =
                 [i \in 1..Len(StoreSearch(rows, limit)) |->
                    PostgresCandidate(StoreSearch(rows, limit)[i])]
            /\ UNCHANGED <<error, faults>>
       ELSE /\ postgres_results' = <<>>
            /\ error' = "PostgreSQL search error"
            /\ faults' = faults \cup {"store"}
  /\ pc' = NextNode(pc)
  /\ UNCHANGED <<limit, model_available, vector_results, hybrid_results,
                 reranked_results, final_results, compute_scores>>
  /\ UNCHANGED <<legal_vars, answer_vars>>
  /\ UNCHANGED analysis_vars

----------------------------------------------------------------------------
(* Stage 2: vector search *)

(* The neighbours the index can hold for a query: distinct documents,     *)
(* nearest first.                                                          *)
IndexHits ==
  {h \in UNION {[1..k -> [doc : DocIds, distance : Distances]] : k \in 0..MaxDocs} :
     /\ \A i, j \in 1..Len(h) : i # j => h[i].doc # h[j].doc
     /\ \A i \in 1..Len(h) - 1 : h[i].distance <= h[i + 1].distance}

(* collection.query: at most n_results neighbours *)
IndexQuery(hits, n) == Take(hits, n)

FormattedResult(hit) ==
  [id |-> IdStr(hit.doc), document |-> DocContent(hit.doc),
   metadata |-> DocTitle(hit.doc), score |-> 100 - hit.distance]

(* VectorStoreManager.search_documents: a failure of the embedding or of  *)
(* the query is caught there and answered with the empty list.            *)
VectorStoreSearch(outcome, hits, n) ==
  IF outcome = "ok"
  THEN [i \in 1..Len(IndexQuery(hits, n)) |-> FormattedResult(IndexQuery(hits, n)[i])]
  ELSE <<>>

VectorOutcomes == {"ok", "embedding", "index"}

(* search_documents never raises, so the handler of search_vector_store   *)
(* (lines 91-94) has nothing to catch.                                    *)
SearchVectorStore ==
  /\ pc = "search_vector"
  /\ \E outcome \in VectorOutcomes, hits \in IndexHits :
       LET found == VectorStoreSearch(outcome, hits, limit)
       IN  /\ vector_results' =
                [i \in 1..Len(found) |-> Put(found[i], "search_type", "vector")]
           /\ faults' = IF outcome = "ok" THEN faults ELSE faults \cup {outcome}
  /\ pc' = NextNode(pc)
  /\ UNCHANGED <<limit, model_available, postgres_results, hybrid_results,
                 reranked_results, final_results, error, compute_scores>>
  /\ UNCHANGED <<legal_vars, answer_vars>>
  /\ UNCHANGED analysis_vars

----------------------------------------------------------------------------
(* Stage 3: fusion *)

(* combined_map is a dict in insertion order whose values are the very    *)
(* dicts of postgres_results and vector_results: an entry names the list  *)
(* and the position of the dict it refers to.                             *)
(* a lookup that only sees the entries that came from the vector list *)
MapHasVectorOnly(map, id) ==
  \E p \in 1..Len(map) : map[p].id = id /\ map[p].list = "vector"

MapHas(map, id) == \E p \in 1..Len(map) : map[p].id = id

MapPos(map, id) == CHOOSE p \in 1..Len(map) : map[p].id = id

(* combined_map[id] = <the dict at position idx of list> *)
MapPut(map, id, list, idx) ==
  IF MapHas(map, id)
  THEN [map EXCEPT ![MapPos(map, id)] = [id |-> id, list |-> list, idx |-> idx]]
  ELSE Append(map, [id |-> id, list |-> list, idx |-> idx])

Deref(st, e) == IF e.list = "postgres" THEN st.pg[e.idx] ELSE st.vec[e.idx]

Assign(st, e, r) ==
  IF e.list = "postgres" THEN [st EXCEPT !.pg[e.idx] = r]
                         ELSE [st EXCEPT !.vec[e.idx] = r]

(* the seeding loop started one result too late *)
RECURSIVE SeedPostgresSkipFirst(_, _)
SeedPostgresSkipFirst(pg, n) ==
  IF n <= 1 THEN <<>>
  ELSE MapPut(SeedPostgresSkipFirst(pg, n - 1), pg[n]["id"], "postgres", n)

(* lines 108-110 *)
RECURSIVE SeedPostgres(_, _)
SeedPostgres(pg, n) ==
  IF n = 0 THEN <<>>
  ELSE MapPut(SeedPostgres(pg, n - 1), pg[n]["id"], "postgres", n)

(* the mean without the division *)
MeanNoHalving(a, b) == a + b

(* lines 118-120 *)
Mean(a, b) == (a + b) \div 2

(* the loop without its else branch: a vector result with a new id is    *)
(* not inserted                                                           *)
MergeVectorNoInsert(st, j) ==
  LET result == st.vec[j]
      id == result["id"]
  IN  IF \E p \in 1..Len(st.map) : st.map[p].id = id
      THEN LET e == st.map[CHOOSE p \in 1..Len(st.map) : st.map[p].id = id]
               t1 == Put(Deref(st, e), "vector_score", result["score"])
               t2 == Put(t1, "combined_score", (t1["score"] + result["score"]) \div 2)
               t3 == Put(t2, "search_type", "hybrid")
           IN  Assign(st, e, t3)
      ELSE st

(* one turn of the loop of lines 113-125, for vector result j *)
MergeVector(st, j) ==
  LET result == st.vec[j]
      id == result["id"]
  IN  IF MapHas(st.map, id)
      THEN LET e == st.map[MapPos(st.map, id)]
               t1 == Put(Deref(st, e), "vector_score", result["score"])
               t2 == Put(t1, "combined_score", Mean(t1["score"], result["score"]))
               t3 == Put(t2, "search_type", "hybrid")
           IN  Assign(st, e, t3)
      ELSE [st EXCEPT !.vec[j] = Put(result, "combined_score", result["score"]),
                      !.map = MapPut(@, id, "vector", j)]

RECURSIVE MergeAll(_, _)
MergeAll(st, n) == IF n = 0 THEN st ELSE MergeVector(MergeAll(st, n - 1), n)

(* the key of the sort of line 129 *)
SortKey(r) == Get(r, "combined_score", 0)

(* the fusion without the truncation of line 133 *)
CombineNoLimit(pg, vec, lim) ==
  LET st == MergeAll([pg |-> pg, vec |-> vec, map |-> SeedPostgres(pg, Len(pg))],
                     Len(vec))
      values == [p \in 1..Len(st.map) |-> Deref(st, st.map[p])]
      sorted == SortDesc(values, [p \in 1..Len(values) |-> SortKey(values[p])])
  IN  [pg |-> st.pg, vec |-> st.vec, hybrid |-> sorted]

(* lines 101-133: the lists as the loops leave them, and the fused list *)
Combine(pg, vec, lim) ==
  LET st == MergeAll([pg |-> pg, vec |-> vec, map |-> SeedPostgres(pg, Len(pg))],
                     Len(vec))
      values == [p \in 1..Len(st.map) |-> Deref(st, st.map[p])]
      sorted == SortDesc(values, [p \in 1..Len(values) |-> SortKey(values[p])])
  IN  [pg |-> st.pg, vec |-> st.vec, hybrid |-> Take(sorted, lim)]

CombineResults ==
  /\ pc = "combine_results"
  /\ LET r == Combine(postgres_results, vector_results, limit)
     IN  /\ postgres_results' = r.pg
         /\ vector_results' = r.vec
         /\ hybrid_results' = r.hybrid
  /\ pc' = NextNode(pc)
  /\ UNCHANGED <<limit, model_available, reranked_results, final_results,
                 error, faults, compute_scores>>
  /\ UNCHANGED <<legal_vars, answer_vars>>
  /\ UNCHANGED analysis_vars

----------------------------------------------------------------------------
(* Stage 4: reranking *)

ScoringOutcomes == {"ok", "scoring"}

(* the fallback of BGEReranker.rerank (lines 31 and 54): the first top_k  *)
(* documents in their order, each scored 1.0                              *)
Fallback(documents, top_k) ==
  [i \in 1..Len(Take(documents, top_k)) |-> [idx |-> i, score |-> 100]]

(* rerank without the sort of line 48 *)
RerankUnsorted(available, outcome, scores, documents, top_k) ==
  IF ~available THEN Fallback(documents, top_k)
  ELSE IF outcome = "ok"
  THEN Take([i \in 1..Min(Len(scores), Len(documents)) |->
               [idx |-> i, score |-> scores[i]]], top_k)
  ELSE Fallback(documents, top_k)

(* rerank without the fallback of line 54: a failure of the model answers *)
(* with nothing                                                           *)
RerankNoFallback(available, outcome, scores, documents, top_k) ==
  IF ~available THEN Fallback(documents, top_k)
  ELSE IF outcome = "ok"
  THEN LET scored_docs == [i \in 1..Min(Len(scores), Len(documents)) |->
                             [idx |-> i, score |-> scores[i]]]
       IN  Take(SortDesc(scored_docs,
                         [i \in 1..Len(scored_docs) |-> scored_docs[i].score]),
                top_k)
  ELSE <<>>

(* BGEReranker.rerank: the (position, score) pairs it returns.  `scores`  *)
(* is what model.compute_score answers when `outcome` is "ok"; any other  *)
(* outcome is an exception of the model, caught at line 51.               *)
Rerank(available, outcome, scores, documents, top_k) ==
  IF ~available THEN Fallback(documents, top_k)
  ELSE IF outcome = "ok"
  THEN LET scored_docs == [i \in 1..Min(Len(scores), Len(documents)) |->
                             [idx |-> i, score |-> scores[i]]]
       IN  Take(SortDesc(scored_docs,
                         [i \in 1..Len(scored_docs) |-> scored_docs[i].score]),
                top_k)
  ELSE Fallback(documents, top_k)

(* BGEReranker.rerank_with_metadata: copies of the chosen documents, each *)
(* with its rerank_score                                                  *)
RerankWithMetadata(available, outcome, scores, documents, top_k) ==
  IF documents = <<>> THEN <<>>
  ELSE LET contents == [i \in 1..Len(documents) |-> Get(documents[i], "content", <<>>)]
           reranked == Rerank(available, outcome, scores, contents, top_k)
       IN  [i \in 1..Len(reranked) |->
              Put(documents[reranked[i].idx], "rerank_score", reranked[i].score)]

(* rerank_results without the early return of lines 150-152 *)
RerankResultsNoEarlyReturn ==
  /\ pc = "rerank_results"
  /\ \E outcome \in {"ok", "scoring"},
        scores \in [1..Len(hybrid_results) -> ModelScores] :
       /\ reranked_results' =
            IF ~model_available THEN hybrid_results
            ELSE IF hybrid_results = <<>> THEN <<>>
            ELSE [i \in 1..Len(hybrid_results) |->
                    Put(hybrid_results[i], "rerank_score", scores[i])]
       /\ faults' = IF model_available /\ outcome # "ok"
                    THEN faults \cup {outcome} ELSE faults
       /\ compute_scores' = IF model_available /\ outcome = "ok" THEN scores ELSE <<>>
  /\ pc' = "finalize_results"
  /\ UNCHANGED <<limit, model_available, postgres_results, vector_results,
                 hybrid_results, final_results, error>>
  /\ UNCHANGED <<legal_vars, answer_vars>>
  /\ UNCHANGED analysis_vars

(* rerank_with_metadata raises nothing of its own and rerank catches the  *)
(* model's exceptions, so the handler of lines 172-175 has nothing to     *)
(* catch.                                                                 *)
RerankResults ==
  /\ pc = "rerank_results"
  /\ \E outcome \in ScoringOutcomes,
        scores \in [1..Len(hybrid_results) -> ModelScores] :
       LET invoked == hybrid_results # <<>> /\ model_available
       IN  /\ reranked_results' =
                IF hybrid_results = <<>> THEN <<>>
                ELSE IF ~model_available THEN hybrid_results
                ELSE RerankWithMetadata(model_available, outcome, scores,
                                        hybrid_results, limit)
           /\ faults' = IF invoked /\ outcome # "ok"
                        THEN faults \cup {outcome} ELSE faults
           /\ compute_scores' = IF invoked /\ outcome = "ok" THEN scores ELSE <<>>
  /\ pc' = NextNode(pc)
  /\ UNCHANGED <<limit, model_available, postgres_results, vector_results,
                 hybrid_results, final_results, error>>
  /\ UNCHANGED <<legal_vars, answer_vars>>
  /\ UNCHANGED analysis_vars

----------------------------------------------------------------------------
(* Stage 5: formatting *)

PreviewLen == 500

(* the three characters of "..." *)
Marker == <<".", ".", ".">>

(* the preview with the comparison off by one *)
ContentPreviewOffByOne(content) ==
  IF Len(content) >= PreviewLen
  THEN SubSeq(content, 1, PreviewLen) \o Marker
  ELSE content

(* line 191 *)
ContentPreview(content) ==
  IF Len(content) > PreviewLen
  THEN SubSeq(content, 1, PreviewLen) \o Marker
  ELSE content

(* the resolution with combined_score tried first *)
RelevanceCombinedFirst(r) ==
  Get(r, "combined_score", Get(r, "rerank_score", Get(r, "score", 0)))

(* line 196 *)
RelevanceScore(r) ==
  Get(r, "rerank_score", Get(r, "combined_score", Get(r, "score", 0)))

(* the result with the 0-based position as rank *)
FinalResultZeroBased(i, result) ==
  [rank |-> i - 1,
   id |-> result["id"],
   title |-> Get(result, "title", <<>>),
   content_preview |-> ContentPreview(Get(result, "content", <<>>)),
   full_content |-> Get(result, "content", <<>>),
   document_type |-> Get(result, "document_type", ""),
   category |-> Get(result, "category", ""),
   source |-> Get(result, "source", ""),
   relevance_score |-> RelevanceScore(result),
   search_type |-> Get(result, "search_type", "unknown")]

(* lines 187-198 *)
FinalResult(i, result) ==
  [rank |-> i,
   id |-> result["id"],
   title |-> Get(result, "title", <<>>),
   content_preview |-> ContentPreview(Get(result, "content", <<>>)),
   full_content |-> Get(result, "content", <<>>),
   document_type |-> Get(result, "document_type", ""),
   category |-> Get(result, "category", ""),
   source |-> Get(result, "source", ""),
   relevance_score |-> RelevanceScore(result),
   search_type |-> Get(result, "search_type", "unknown")]

Finalize(reranked) == [i \in 1..Len(reranked) |-> FinalResult(i, reranked[i])]

FinalizeResults ==
  /\ pc = "finalize_results"
  /\ final_results' = Finalize(reranked_results)
  /\ pc' = NextNode(pc)
  /\ UNCHANGED <<limit, model_available, postgres_results, vector_results,
                 hybrid_results, reranked_results, error, faults, compute_scores>>
  /\ UNCHANGED <<legal_vars, answer_vars>>
  /\ UNCHANGED analysis_vars

----------------------------------------------------------------------------
Init ==
  /\ pc = "search_postgres"
  /\ limit \in 0..MaxLimit
  /\ model_available \in BOOLEAN
  /\ postgres_results = <<>>
  /\ vector_results = <<>>
  /\ hybrid_results = <<>>
  /\ reranked_results = <<>>
  /\ final_results = <<>>
  /\ error = None
  /\ faults = {}
  /\ compute_scores = <<>>
  /\ graph = "none"
  /\ lw_node = "none"
  /\ legal_state = <<>>
  /\ store_answer = "unknown"
  /\ index_answer = "unknown"
  /\ search_steps = <<>>
  /\ analysis_node = "none"
  /\ analysis_state = <<>>

Next ==
  \/ SearchPostgres
  \/ SearchVectorStore
  \/ CombineResults
  \/ RerankResults
  \/ FinalizeResults

Spec == Init /\ [][Next]_vars

----------------------------------------------------------------------------
(* Formatting of long contents.  A run that found one stored document,    *)
(* with the reranker unavailable, stands before finalize_results; the     *)
(* content of the document is a text of characters whose length lies      *)
(* around the preview length.                                             *)

(* a text of n characters; the salt varies the characters *)
TextOf(n, salt) == [i \in 1..n |-> (i + salt) % 7]

PreviewContents ==
  {TextOf(n, salt) :
     n \in {0} \cup ((PreviewLen - PreviewMargin)..(PreviewLen + PreviewMargin)),
     salt \in 0..1}

PreviewInit ==
  /\ pc = "finalize_results"
  /\ limit = 1
  /\ model_available = FALSE
  /\ \E content \in PreviewContents :
       LET found == Put(PostgresCandidate(1), "content", content)
       IN  /\ postgres_results = <<found>>
           /\ hybrid_results = <<found>>
           /\ reranked_results = <<found>>
  /\ vector_results = <<>>
  /\ final_results = <<>>
  /\ error = None
  /\ faults = {}
  /\ compute_scores = <<>>
  /\ graph = "none"
  /\ lw_node = "none"
  /\ legal_state = <<>>
  /\ store_answer = "unknown"
  /\ index_answer = "unknown"
  /\ search_steps = <<>>
  /\ analysis_node = "none"
  /\ analysis_state = <<>>

PreviewNext ==
  \/ FinalizeResults

PreviewSpec == PreviewInit /\ [][PreviewNext]_vars

----------------------------------------------------------------------------
(* The legal graph (workflows/graphs/legal_workflow.py) around the         *)
(* retrieval graph.  A node of the legal graph is one step: run_retrieval  *)
(* builds a fresh retrieval state, runs the whole retrieval graph on it    *)
(* and answers with an update of the legal state; the retrieval variables  *)
(* hold the state the nested run ended in.                                 *)

(* limit=10 of the retrieval state that run_retrieval builds *)
RetrievalLimit == 10

(* what db_manager.search_documents does in a run: it raises, or it       *)
(* answers with at most n rows                                            *)
StoreAnswers(n) ==
  {[ok |-> FALSE, rows |-> <<>>]} \cup
  {[ok |-> TRUE, rows |-> r] : r \in {s \in StoreRows : Len(s) <= n}}

(* what the embedding and the index do in a run *)
IndexAnswers(n) ==
  {[outcome |-> o, hits |-> <<>>] : o \in VectorOutcomes \ {"ok"}} \cup
  {[outcome |-> "ok", hits |-> h] : h \in {x \in IndexHits : Len(x) <= n}}

(* what the cross-encoder does when it is given n pairs *)
ScoringAnswers(n) ==
  {[outcome |-> "scoring", scores |-> <<>>]} \cup
  {[outcome |-> "ok", scores |-> s] : s \in [1..n -> ModelScores]}

(* search_postgres as a function of the store's answer *)
PostgresStage(sa, lim) ==
  IF sa.ok
  THEN [results |-> [i \in 1..Len(StoreSearch(sa.rows, lim)) |->
                       PostgresCandidate(StoreSearch(sa.rows, lim)[i])],
        error |-> None]
  ELSE [results |-> <<>>, error |-> "PostgreSQL search error"]

(* search_vector_store as a function of the index's answer *)
VectorStage(ia, lim) ==
  LET found == VectorStoreSearch(ia.outcome, ia.hits, lim)
  IN  [i \in 1..Len(found) |-> Put(found[i], "search_type", "vector")]

(* rerank_results as a function of the cross-encoder's answer *)
RerankStage(hybrid, available, sc, lim) ==
  IF hybrid = <<>> THEN <<>>
  ELSE IF ~available THEN hybrid
  ELSE RerankWithMetadata(available, sc.outcome, sc.scores, hybrid, lim)

(* retrieval_workflow.invoke: the five nodes in the order of the edges,   *)
(* on the state built at lines 36-47                                      *)
RetrievalRun(lim, available, sa, ia, sc) ==
  LET lexical == PostgresStage(sa, lim)
      fused == Combine(lexical.results, VectorStage(ia, lim), lim)
      reranked == RerankStage(fused.hybrid, available, sc, lim)
      invoked == fused.hybrid # <<>> /\ available
  IN  [postgres_results |-> fused.pg,
       vector_results |-> fused.vec,
       hybrid_results |-> fused.hybrid,
       reranked_results |-> reranked,
       final_results |-> Finalize(reranked),
       error |-> lexical.error,
       faults |-> (IF sa.ok THEN {} ELSE {"store"}) \cup
                  (IF ia.outcome = "ok" THEN {} ELSE {ia.outcome}) \cup
                  (IF invoked /\ sc.outcome # "ok" THEN {sc.outcome} ELSE {}),
       compute_scores |-> IF invoked /\ sc.outcome = "ok" THEN sc.scores ELSE <<>>]

(* a node's answer is written over the keys it names *)
Merge(state, update) == update @@ state

(* the states a caller starts the legal graph with: the query and the     *)
(* messages, with or without the other keys of LegalWorkflowState         *)
InitialLegalStates ==
  {[query |-> "query", messages |-> <<>>],
   [query |-> "query", documents |-> <<>>, retrieved_docs |-> <<>>,
    analysis_result |-> <<>>, messages |-> <<>>, current_step |-> None,
    error |-> None, metadata |-> None]}

(* Python's truth of state.get("error") *)
Truthy(v) == v # None /\ v # ""

(* should_continue without the test of the error *)
should_continueIgnoresError(state) ==
  IF Get(state, "current_step", "") = "retrieval_complete" THEN "analysis"
  ELSE IF Get(state, "current_step", "") = "analysis_complete" THEN "end"
  ELSE "retrieval"

(* should_continue, lines 119-131 *)
should_continue(state) ==
  IF Truthy(Get(state, "error", None)) THEN "error"
  ELSE IF Get(state, "current_step", "") = "retrieval_complete" THEN "analysis"
  ELSE IF Get(state, "current_step", "") = "analysis_complete" THEN "end"
  ELSE "retrieval"

(* the node that runs after `node` has answered and `state` is the merged *)
(* state: the edges of create_legal_workflow (lines 26-27), the           *)
(* conditional edges of create_conditional_workflow (lines 149-167).  A   *)
(* route without an edge is "no_edge".                                    *)
LegalNextNode(g, node, state) ==
  IF g = "legal"
  THEN CASE node = "retrieval" -> "analysis"
         [] node = "analysis" -> "end"
  ELSE CASE node = "retrieval" ->
              (CASE should_continue(state) = "analysis" -> "analysis"
                 [] should_continue(state) = "error" -> "error_handler"
                 [] OTHER -> "no_edge")
         [] node = "analysis" ->
              (CASE should_continue(state) = "end" -> "end"
                 [] should_continue(state) = "error" -> "error_handler"
                 [] OTHER -> "no_edge")
         [] node = "error_handler" -> "end"

(* run_retrieval, lines 32-66.  Building or invoking the retrieval graph  *)
(* may raise (the fault "orchestration"): the handler of lines 62-66      *)
(* answers with the error and the step alone.                             *)
RunRetrieval ==
  /\ lw_node = "retrieval"
  /\ \/ /\ faults' = faults \cup {"orchestration"}
        /\ legal_state' = Merge(legal_state,
                                [error |-> "retrieval orchestration error",
                                 current_step |-> "retrieval_error"])
        /\ UNCHANGED <<pc, postgres_results, vector_results, hybrid_results,
                       reranked_results, final_results, error, compute_scores>>
     \/ \E sa \in StoreAnswers(AnswerMaxDocs), ia \in IndexAnswers(AnswerMaxDocs) :
          \E sc \in ScoringAnswers(
                      IF model_available
                      THEN Len(Combine(PostgresStage(sa, limit).results,
                                       VectorStage(ia, limit), limit).hybrid)
                      ELSE 0) :
            LET result == RetrievalRun(limit, model_available, sa, ia, sc)
            IN  /\ pc' = "done"
                /\ postgres_results' = result.postgres_results
                /\ vector_results' = result.vector_results
                /\ hybrid_results' = result.hybrid_results
                /\ reranked_results' = result.reranked_results
                /\ final_results' = result.final_results
                /\ error' = result.error
                /\ faults' = faults \cup result.faults
                /\ compute_scores' = result.compute_scores
                /\ legal_state' =
                     Merge(legal_state,
                           [retrieved_docs |-> result.final_results,
                            current_step |-> "retrieval_complete",
                            messages |-> Append(legal_state["messages"],
                                                <<"found", Len(result.final_results)>>)])
  /\ lw_node' = LegalNextNode(graph, lw_node, legal_state')
  /\ UNCHANGED <<graph, limit, model_available, answer_vars>>
  /\ UNCHANGED analysis_vars

(* compile_analysis, analysis.py lines 290-301, for analysis_type "full": *)
(* the fields the LLM writes are there when its calls succeeded           *)
AnalysisResult(first_doc, llm_ok) ==
  LET written == IF llm_ok THEN "generated" ELSE None
  IN  [document_metadata |-> [title |-> Get(first_doc, "title", "")],
       analysis_type |-> "full",
       llm_provider |-> "openai",
       summary |-> written,
       key_points |-> written,
       legal_issues |-> written,
       entities |-> written,
       recommendations |-> written,
       risk_assessment |-> written,
       analysis_complete |-> TRUE]

(* run_analysis, lines 69-116 *)
RunAnalysis ==
  /\ lw_node = "analysis"
  /\ LET retrieved_docs == Get(legal_state, "retrieved_docs", <<>>)
     IN  IF retrieved_docs = <<>>
         THEN /\ legal_state' = Merge(legal_state,
                                      [analysis_result |-> [error |-> "no documents"],
                                       current_step |-> "analysis_complete"])
              /\ UNCHANGED faults
         ELSE \/ /\ faults' = faults \cup {"analysis_orchestration"}
                 /\ legal_state' = Merge(legal_state,
                                         [error |-> "analysis orchestration error",
                                          current_step |-> "analysis_error"])
              \/ \E llm_ok \in BOOLEAN :
                   /\ legal_state' =
                        Merge(legal_state,
                              [analysis_result |-> AnalysisResult(retrieved_docs[1], llm_ok),
                               current_step |-> "analysis_complete",
                               messages |-> Append(legal_state["messages"],
                                                   <<"analysis complete">>)])
                   /\ UNCHANGED faults
  /\ lw_node' = LegalNextNode(graph, lw_node, legal_state')
  /\ UNCHANGED <<graph, pc, limit, model_available, postgres_results,
                 vector_results, hybrid_results, reranked_results,
                 final_results, error, compute_scores, answer_vars>>
  /\ UNCHANGED analysis_vars

(* handle_error, lines 172-181 *)
HandleError ==
  /\ lw_node = "error_handler"
  /\ legal_state' =
       Merge(legal_state,
             [messages |-> Append(legal_state["messages"],
                                  <<"error", Get(legal_state, "error", "Unknown error occurred")>>),
              current_step |-> "error_handled"])
  /\ lw_node' = LegalNextNode(graph, lw_node, legal_state')
  /\ UNCHANGED <<graph, pc, limit, model_available, postgres_results,
                 vector_results, hybrid_results, reranked_results,
                 final_results, error, faults, compute_scores, answer_vars>>
  /\ UNCHANGED analysis_vars

LegalInit ==
  /\ graph \in {"legal", "conditional"}
  /\ lw_node = "retrieval"
  /\ legal_state \in InitialLegalStates
  /\ pc = "search_postgres"
  /\ limit = RetrievalLimit
  /\ model_available \in BOOLEAN
  /\ postgres_results = <<>>
  /\ vector_results = <<>>
  /\ hybrid_results = <<>>
  /\ reranked_results = <<>>
  /\ final_results = <<>>
  /\ error = None
  /\ faults = {}
  /\ compute_scores = <<>>
  /\ store_answer = "unknown"
  /\ index_answer = "unknown"
  /\ search_steps = <<>>
  /\ analysis_node = "none"
  /\ analysis_state = <<>>

LegalNext ==
  \/ RunRetrieval
  \/ RunAnalysis
  \/ HandleError

LegalSpec == LegalInit /\ [][LegalNext]_vars

----------------------------------------------------------------------------
(* Properties *)

Fused == pc \in {"rerank_results", "finalize_results", "done"}

Reranked == pc \in {"finalize_results", "done"}

HasValue(r, k, v) == k \in DOMAIN r /\ r[k] = v

NoDuplicateIds(list) ==
  \A i, j \in 1..Len(list) : i # j => list[i]["id"] # list[j]["id"]

(* the score the candidate with this id has in a list it occurs in *)
ScoreOf(list, id) == (CHOOSE r \in {list[i] : i \in 1..Len(list)} : r["id"] = id)["score"]

(* the fusion scenario: lexical {1, 2} both 1.0, vector {2: 0.8, 3: 0.6} *)
ScenarioFused ==
  /\ pc = "rerank_results"
  /\ Ids(postgres_results) = <<"1", "2">>
  /\ Ids(vector_results) = <<"2", "3">>
  /\ vector_results[1]["score"] = 80
  /\ vector_results[2]["score"] = 60

(* C1: in the fusion scenario (lexical {A, B} at 1.0, vector {B: 0.8,     *)
(* C: 0.6}) the fused list is A with combined score 1.0, B with 0.9       *)
(* marked hybrid and C with 0.6, in the order [A, B, C]; with limit 2 it  *)
(* is exactly [A, B].                                                     *)
C1_FusionScenario ==
  ScenarioFused =>
    IF limit = 2
    THEN Ids(hybrid_results) = <<"1", "2">>
    ELSE /\ Ids(hybrid_results) = <<"1", "2", "3">>
         /\ HasValue(hybrid_results[1], "combined_score", 100)
         /\ HasValue(hybrid_results[2], "combined_score", 90)
         /\ hybrid_results[2]["search_type"] = "hybrid"
         /\ HasValue(hybrid_results[3], "combined_score", 60)

(* C2: after fusion every candidate found by the lexical search only      *)
(* carries a combined_score equal to its lexical score.                   *)
C2_LexicalSeed ==
  Fused =>
    \A i \in 1..Len(hybrid_results) :
      hybrid_results[i]["id"] \notin IdSet(vector_results)
        => HasValue(hybrid_results[i], "combined_score", hybrid_results[i]["score"])

(* the combined score of the fusion rule: the lexical score where the     *)
(* candidate was found by the lexical search only                         *)
FusedScore(r) == Get(r, "combined_score", r["score"])

(* C3: the fused list is sorted by combined score descending, a           *)
(* lexical-only candidate counting with its lexical score.                *)
C3_FusedSorted ==
  Fused =>
    \A i \in 1..Len(hybrid_results) - 1 :
      FusedScore(hybrid_results[i]) >= FusedScore(hybrid_results[i + 1])

(* C4: an id found by both searches is fused to the mean of its two       *)
(* scores and marked hybrid; an id found by the vector search only gets   *)
(* its vector score as combined score and stays of type vector.  The      *)
(* fused entry is the lexical dict for a shared id and the vector dict    *)
(* for a vector-only id, whether or not the truncation keeps it.          *)
C4_FusionRule ==
  Fused =>
    /\ \A i \in 1..Len(hybrid_results) :
         LET h == hybrid_results[i]
             inLexical == h["id"] \in IdSet(postgres_results)
             inVector == h["id"] \in IdSet(vector_results)
         IN  /\ (inLexical /\ inVector) =>
                  /\ HasValue(h, "combined_score",
                        (ScoreOf(postgres_results, h["id"])
                           + ScoreOf(vector_results, h["id"])) \div 2)
                  /\ 2 * h["combined_score"] =
                        ScoreOf(postgres_results, h["id"])
                          + ScoreOf(vector_results, h["id"])
                  /\ h["search_type"] = "hybrid"
             /\ (~inLexical /\ inVector) =>
                  /\ HasValue(h, "combined_score", ScoreOf(vector_results, h["id"]))
                  /\ h["search_type"] = "vector"
    /\ \A i \in 1..Len(postgres_results) :
         LET r == postgres_results[i]
         IN  r["id"] \in IdSet(vector_results) =>
               /\ HasValue(r, "combined_score",
                     (r["score"] + ScoreOf(vector_results, r["id"])) \div 2)
               /\ r["search_type"] = "hybrid"
    /\ \A i \in 1..Len(vector_results) :
         LET r == vector_results[i]
         IN  r["id"] \notin IdSet(postgres_results) =>
               /\ HasValue(r, "combined_score", r["score"])
               /\ r["search_type"] = "vector"

C4_Witness ==
  /\ Fused
  /\ \E i, j \in 1..Len(hybrid_results) :
       /\ hybrid_results[i]["search_type"] = "hybrid"
       /\ hybrid_results[i]["combined_score"] = 90
       /\ hybrid_results[j]["search_type"] = "vector"
       /\ hybrid_results[j]["combined_score"] = 60

(* C5: no two entries of hybrid_results share an id, nor of               *)
(* reranked_results, nor of final_results.                                *)
C5_NoDuplicateIds ==
  /\ NoDuplicateIds(hybrid_results)
  /\ NoDuplicateIds(reranked_results)
  /\ NoDuplicateIds(final_results)

C5_Witness ==
  /\ pc = "done"
  /\ IdSet(postgres_results) \cap IdSet(vector_results) # {}
  /\ Len(final_results) >= 2
  /\ \E i \in 1..Len(final_results) : final_results[i].search_type = "hybrid"

(* C6: at the end of a run final_results has at most `limit` entries,     *)
(* whether or not the reranker model is available.                        *)
C6_AtMostLimit ==
  pc = "done" => Len(final_results) <= limit

C6_Witness ==
  /\ pc = "done"
  /\ limit > 0
  /\ Cardinality(IdSet(postgres_results) \cup IdSet(vector_results)) > limit
  /\ Len(final_results) = limit

(* C7: with the reranker model unavailable the rerank stage returns the   *)
(* first `limit` fused candidates in their order, each with               *)
(* rerank_score = 1.0 and otherwise unchanged.                            *)
C7_Degradation ==
  (Reranked /\ ~model_available) =>
    reranked_results =
      [i \in 1..Len(Take(hybrid_results, limit)) |->
         Put(hybrid_results[i], "rerank_score", 100)]

(* the model was asked for scores and answered *)
Scored == Reranked /\ model_available /\ hybrid_results # <<>> /\ "scoring" \notin faults

(* C8: when the model is available and scoring succeeds, every reranked   *)
(* entry is a fused candidate with the model's score for it as            *)
(* rerank_score, no candidate is returned twice, the list is ordered by   *)
(* rerank_score descending and has min(limit, number of fused             *)
(* candidates) entries.                                                   *)
C8_Reranked ==
  Scored =>
    /\ \A i \in 1..Len(reranked_results) :
         \E j \in 1..Len(hybrid_results) :
           reranked_results[i] =
             Put(hybrid_results[j], "rerank_score", compute_scores[j])
    /\ NoDuplicateIds(reranked_results)
    /\ \A i \in 1..Len(reranked_results) - 1 :
         reranked_results[i]["rerank_score"] >= reranked_results[i + 1]["rerank_score"]
    /\ Len(reranked_results) = Min(limit, Len(hybrid_results))

C8_Witness ==
  /\ Scored
  /\ Len(hybrid_results) >= 2
  /\ compute_scores[1] < compute_scores[2]
  /\ Ids(reranked_results) # Ids(hybrid_results)

(* C9: a failure of any kind (store, embedding, index query, rerank       *)
(* scoring) leaves error set to a non-empty string at the end of the run. *)
C9_FailureRecorded ==
  (pc = "done" /\ faults # {}) => error \notin {None, ""}

StageOrder ==
  <<"search_postgres", "search_vector", "combine_results", "rerank_results",
    "finalize_results", "done">>

StageIndex(node) == CHOOSE i \in 1..Len(StageOrder) : StageOrder[i] = node

(* C13: a run starts at search_postgres and every step runs the stage     *)
(* that follows the previous one in the fixed order, so each of the five  *)
(* stages runs exactly once and none is skipped, repeated or retried,     *)
(* whatever failed.                                                       *)
C13_FixedOrder ==
  /\ pc = "search_postgres"
  /\ [][StageIndex(pc') = StageIndex(pc) + 1]_vars

C13_Witness ==
  /\ pc = "done"
  /\ {"store", "embedding"} \subseteq faults

(* C14: final_results has the length of reranked_results and its k-th     *)
(* entry has rank k and the id of the k-th reranked candidate.            *)
C14_ContiguousRank ==
  pc = "done" =>
    /\ Len(final_results) = Len(reranked_results)
    /\ \A k \in 1..Len(final_results) :
         /\ final_results[k].rank = k
         /\ final_results[k].id = reranked_results[k]["id"]

C14_Witness ==
  /\ pc = "done"
  /\ Len(final_results) >= 2
  /\ Ids(reranked_results) # Ids(hybrid_results)

(* C15: relevance_score is the rerank_score if the candidate has one,     *)
(* else its combined_score if it has one, else its raw score, else 0.     *)
C15_RelevanceOrder ==
  pc = "done" =>
    \A k \in 1..Len(final_results) :
      LET r == reranked_results[k]
      IN  final_results[k].relevance_score =
            IF "rerank_score" \in DOMAIN r THEN r["rerank_score"]
            ELSE IF "combined_score" \in DOMAIN r THEN r["combined_score"]
            ELSE IF "score" \in DOMAIN r THEN r["score"]
            ELSE 0

C15_Witness ==
  /\ pc = "done"
  /\ \E j, k \in 1..Len(final_results) :
       /\ "rerank_score" \notin DOMAIN reranked_results[j]
       /\ "combined_score" \notin DOMAIN reranked_results[j]
       /\ final_results[j].relevance_score = 100
       /\ "rerank_score" \notin DOMAIN reranked_results[k]
       /\ "combined_score" \in DOMAIN reranked_results[k]
       /\ final_results[k].relevance_score = 60

(* both searches answered and found nothing *)
NothingFound ==
  postgres_results = <<>> /\ vector_results = <<>> /\ "store" \notin faults

(* C17: when both searches find nothing, hybrid_results, reranked_results *)
(* and final_results are empty, error stays unset and the rerank stage    *)
(* does not invoke the model, available or not.                           *)
C17_EmptyRun ==
  /\ (Fused /\ NothingFound) => (hybrid_results = <<>> /\ error = None)
  /\ (Reranked /\ NothingFound) =>
       /\ reranked_results = <<>>
       /\ compute_scores = <<>>
       /\ "scoring" \notin faults
  /\ (pc = "done" /\ NothingFound) => final_results = <<>>

C17_Witness ==
  /\ pc = "done"
  /\ NothingFound
  /\ faults = {}
  /\ model_available
  /\ limit > 0

(* C18: when the lexical and the vector list share no id, fusion keeps    *)
(* every candidate of both: |lexical| + |vector| entries, cut to limit.   *)
C18_DisjointSize ==
  (Fused /\ IdSet(postgres_results) \cap IdSet(vector_results) = {}) =>
    /\ Len(hybrid_results) = Min(limit, Len(postgres_results) + Len(vector_results))
    /\ limit >= Len(postgres_results) + Len(vector_results) =>
         IdSet(hybrid_results) = IdSet(postgres_results) \cup IdSet(vector_results)

C18_Witness ==
  /\ Fused
  /\ IdSet(postgres_results) \cap IdSet(vector_results) = {}
  /\ Len(postgres_results) >= 1
  /\ Len(vector_results) >= 1
  /\ Len(hybrid_results) = Len(postgres_results) + Len(vector_results)

(* C19: every candidate of the vector search has a score within [0, 1].   *)
C19_ScoreRange ==
  \A i \in 1..Len(vector_results) :
    vector_results[i]["score"] >= 0 /\ vector_results[i]["score"] <= 100

(* C16: content_preview is the first 500 characters of the content        *)
(* followed by "..." when the content is longer than 500 characters, and  *)
(* the content itself when its length is at most 500; full_content is     *)
(* always the whole content.                                              *)
C16_Preview ==
  pc = "done" =>
    \A k \in 1..Len(final_results) :
      LET c == Get(reranked_results[k], "content", <<>>)
          preview == final_results[k].content_preview
      IN  /\ final_results[k].full_content = c
          /\ IF Len(c) > 500
             THEN /\ Len(preview) = 503
                  /\ SubSeq(preview, 1, 500) = SubSeq(c, 1, 500)
                  /\ SubSeq(preview, 501, 503) = <<".", ".", ".">>
             ELSE preview = c

C16_Witness ==
  /\ pc = "done"
  /\ Len(final_results) = 1
  /\ Len(final_results[1].full_content) = 501
  /\ Len(final_results[1].content_preview) = 503

----------------------------------------------------------------------------
(* The two searches in any order.  search_postgres and search_vector_store *)
(* each read the query and the limit, call their collaborator, and write   *)
(* their own list into the state; here a run fixes what the store and the  *)
(* index answer, and the calls and the writes of the two searches are      *)
(* taken in every order: one search after the other, or interleaved.       *)

SearchSteps == {"lexical_call", "lexical_write", "vector_call", "vector_write"}

Taken(step) == \E i \in 1..Len(search_steps) : search_steps[i] = step

(* the node after the searches, once the step `step` has ended both *)
AfterSearchStep(step) ==
  IF \A other \in SearchSteps \ {step} : Taken(other)
  THEN "combine_results"
  ELSE "search"

(* search_postgres up to the call of db_manager.search_documents, lines 42-49 *)
LexicalCall ==
  /\ pc = "search"
  /\ ~Taken("lexical_call")
  /\ search_steps' = Append(search_steps, "lexical_call")
  /\ UNCHANGED <<pc, limit, model_available, postgres_results, vector_results,
                 hybrid_results, reranked_results, final_results, error,
                 faults, compute_scores, legal_vars, store_answer, index_answer>>
  /\ UNCHANGED analysis_vars

(* search_postgres from the answer on, lines 51-69: it writes its list,   *)
(* and the error when the store raised                                    *)
LexicalWrite ==
  /\ pc = "search"
  /\ Taken("lexical_call")
  /\ ~Taken("lexical_write")
  /\ LET lexical == PostgresStage(store_answer, limit)
     IN  /\ postgres_results' = lexical.results
         /\ error' = IF store_answer.ok THEN error ELSE lexical.error
         /\ faults' = IF store_answer.ok THEN faults ELSE faults \cup {"store"}
  /\ search_steps' = Append(search_steps, "lexical_write")
  /\ pc' = AfterSearchStep("lexical_write")
  /\ UNCHANGED <<limit, model_available, vector_results, hybrid_results,
                 reranked_results, final_results, compute_scores, legal_vars,
                 store_answer, index_answer>>
  /\ UNCHANGED analysis_vars

(* search_vector_store up to the call of vector_store.search_documents,   *)
(* lines 79-82                                                            *)
VectorCall ==
  /\ pc = "search"
  /\ ~Taken("vector_call")
  /\ search_steps' = Append(search_steps, "vector_call")
  /\ UNCHANGED <<pc, limit, model_available, postgres_results, vector_results,
                 hybrid_results, reranked_results, final_results, error,
                 faults, compute_scores, legal_vars, store_answer, index_answer>>
  /\ UNCHANGED analysis_vars

(* a vector search that answers with a state of its own list alone *)
VectorWriteFreshState ==
  /\ pc = "search"
  /\ Taken("vector_call")
  /\ ~Taken("vector_write")
  /\ vector_results' = VectorStage(index_answer, limit)
  /\ postgres_results' = <<>>
  /\ faults' = IF index_answer.outcome = "ok" THEN faults
               ELSE faults \cup {index_answer.outcome}
  /\ search_steps' = Append(search_steps, "vector_write")
  /\ pc' = AfterSearchStep("vector_write")
  /\ UNCHANGED <<limit, model_available, hybrid_results,
                 reranked_results, final_results, error, compute_scores,
                 legal_vars, store_answer, index_answer>>
  /\ UNCHANGED analysis_vars

(* search_vector_store from the answer on, lines 84-89: it writes its list *)
VectorWrite ==
  /\ pc = "search"
  /\ Taken("vector_call")
  /\ ~Taken("vector_write")
  /\ vector_results' = VectorStage(index_answer, limit)
  /\ faults' = IF index_answer.outcome = "ok" THEN faults
               ELSE faults \cup {index_answer.outcome}
  /\ search_steps' = Append(search_steps, "vector_write")
  /\ pc' = AfterSearchStep("vector_write")
  /\ UNCHANGED <<limit, model_available, postgres_results, hybrid_results,
                 reranked_results, final_results, error, compute_scores,
                 legal_vars, store_answer, index_answer>>
  /\ UNCHANGED analysis_vars

OrderInit ==
  /\ pc = "search"
  /\ limit \in 0..MaxLimit
  /\ model_available \in BOOLEAN
  /\ postgres_results = <<>>
  /\ vector_results = <<>>
  /\ hybrid_results = <<>>
  /\ reranked_results = <<>>
  /\ final_results = <<>>
  /\ error = None
  /\ faults = {}
  /\ compute_scores = <<>>
  /\ graph = "none"
  /\ lw_node = "none"
  /\ legal_state = <<>>
  /\ store_answer \in StoreAnswers(AnswerMaxDocs)
  /\ index_answer \in IndexAnswers(AnswerMaxDocs)
  /\ search_steps = <<>>
  /\ analysis_node = "none"
  /\ analysis_state = <<>>

OrderNext ==
  \/ LexicalCall
  \/ LexicalWrite
  \/ VectorCall
  \/ VectorWrite
  \/ CombineResults
  \/ RerankResults
  \/ FinalizeResults

OrderSpec == OrderInit /\ [][OrderNext]_vars

----------------------------------------------------------------------------
(* finalize_results with its handler.  The loop of lines 186-199 builds   *)
(* the list in a local variable and the state is written after the loop   *)
(* (line 201); an exception raised while a candidate is formatted is      *)
(* caught at line 204.  A run stands before finalize_results with the     *)
(* state that the four stages before it left, and the formatting either   *)
(* succeeds or raises at one of the candidates (the fault "formatting").   *)

(* the handler that keeps the candidates formatted before the failure *)
FinalizeStageKeepsPartial(reranked, fails_at, err) ==
  IF fails_at = 0
  THEN [final_results |-> Finalize(reranked), error |-> err]
  ELSE [final_results |-> Finalize(SubSeq(reranked, 1, fails_at - 1)),
        error |-> "Result finalization error"]

(* lines 181-207: fails_at is the candidate at which the formatting       *)
(* raises, 0 when it does not                                             *)
FinalizeStage(reranked, fails_at, err) ==
  IF fails_at = 0
  THEN [final_results |-> Finalize(reranked), error |-> err]
  ELSE [final_results |-> <<>>, error |-> "Result finalization error"]

FinalizeOrFail ==
  /\ pc = "finalize_results"
  /\ \E fails_at \in 0..Len(reranked_results) :
       LET out == FinalizeStage(reranked_results, fails_at, error)
       IN  /\ final_results' = out.final_results
           /\ error' = out.error
           /\ faults' = IF fails_at = 0 THEN faults ELSE faults \cup {"formatting"}
  /\ pc' = NextNode(pc)
  /\ UNCHANGED <<limit, model_available, postgres_results, vector_results,
                 hybrid_results, reranked_results, compute_scores>>
  /\ UNCHANGED <<legal_vars, answer_vars>>
  /\ UNCHANGED analysis_vars

FormatInit ==
  /\ pc = "finalize_results"
  /\ limit \in 0..MaxLimit
  /\ model_available \in BOOLEAN
  /\ \E sa \in StoreAnswers(AnswerMaxDocs), ia \in IndexAnswers(AnswerMaxDocs) :
       \E sc \in ScoringAnswers(
                   IF model_available
                   THEN Len(Combine(PostgresStage(sa, limit).results,
                                    VectorStage(ia, limit), limit).hybrid)
                   ELSE 0) :
         LET run == RetrievalRun(limit, model_available, sa, ia, sc)
         IN  /\ postgres_results = run.postgres_results
             /\ vector_results = run.vector_results
             /\ hybrid_results = run.hybrid_results
             /\ reranked_results = run.reranked_results
             /\ error = run.error
             /\ faults = run.faults
             /\ compute_scores = run.compute_scores
  /\ final_results = <<>>
  /\ graph = "none"
  /\ lw_node = "none"
  /\ legal_state = <<>>
  /\ store_answer = "unknown"
  /\ index_answer = "unknown"
  /\ search_steps = <<>>
  /\ analysis_node = "none"
  /\ analysis_state = <<>>

FormatNext ==
  \/ FinalizeOrFail

FormatSpec == FormatInit /\ [][FormatNext]_vars

----------------------------------------------------------------------------
(* The analysis graph (workflows/nodes/analysis.py).  The state is the    *)
(* dict the callers build (main.py lines 185-198): every key is there and *)
(* the result fields hold None.  A value that may be None is wrapped, so  *)
(* that a key that holds None differs from a key that is absent.          *)

PyNone == [is_none |-> TRUE]
Some(v) == [is_none |-> FALSE, value |-> v]

(* the analysis types the callers offer (main.py lines 125-131) *)
AnalysisTypes == {"summary", "key_points", "legal_issues", "entities", "full"}

LlmProviders == {"openai", "clova"}

(* A text is its lines.  A line is a "bullet" (it starts with a dash and  *)
(* has text after it), a "mark" (a dash with nothing after it), a         *)
(* "category" (it names an entity category) or "plain".                   *)
Responses ==
  {<<>>, <<"plain">>, <<"bullet", "mark">>, <<"category", "bullet">>}

(* what chat_completion returns when the call fails (openai_client.py     *)
(* lines 52-54): it does not raise                                        *)
Apology == <<"plain">>

(* an answer of the LLM client: the text, and whether the call succeeded *)
LlmAnswers ==
  {[ok |-> TRUE, text |-> r] : r \in Responses} \cup
  {[ok |-> FALSE, text |-> Apology]}

(* the items of the numbered or bulleted lines, or the whole response     *)
(* when there is none (analysis.py lines 118-127, 231-240;                *)
(* openai_client.py lines 133-142)                                        *)
ParseList(response) ==
  LET items == {i \in 1..Len(response) : response[i] = "bullet"}
      ordered == SortedIdx([i \in 1..Len(response) |-> 0 - i], Len(response))
  IN  IF items = {}
      THEN <<[whole |-> response]>>
      ELSE [k \in 1..Cardinality(items) |->
              [item |-> SelectSeq(ordered, LAMBDA i : i \in items)[k]]]

(* lines 163-186: the bulleted lines after a category line *)
ParseEntities(response) ==
  {i \in 1..Len(response) :
     /\ response[i] = "bullet"
     /\ \E c \in 1..(i - 1) : response[c] = "category"}

(* lines 48-70 *)
extract_summary(state, answer) ==
  IF state["analysis_type"] \notin {"summary", "full"} THEN state
  ELSE Put(state, "summary", Some(answer.text))

(* lines 72-91 *)
extract_key_points(state, answer) ==
  IF state["analysis_type"] \notin {"key_points", "full"} THEN state
  ELSE Put(state, "key_points", Some(ParseList(answer.text)))

(* lines 93-136 *)
identify_legal_issues(state, answer) ==
  IF state["analysis_type"] \notin {"legal_issues", "full"} THEN state
  ELSE Put(state, "legal_issues", Some(ParseList(answer.text)))

(* lines 138-194 *)
extract_entities(state, answer) ==
  IF state["analysis_type"] \notin {"entities", "full"} THEN state
  ELSE Put(state, "entities", Some(ParseEntities(answer.text)))

(* lines 196-249 *)
generate_recommendations(state, answer) ==
  Put(state, "recommendations", Some(ParseList(answer.text)))

(* lines 251-283: state.get("legal_issues", []) is None when the key      *)
(* holds None, and the iteration of line 270 over None raises a           *)
(* TypeError, caught at line 279 before the LLM is called                 *)
assess_risk(state, answer) ==
  IF Get(state, "legal_issues", Some(<<>>)).is_none
  THEN Put(state, "error", Some("Risk assessment error"))
  ELSE Put(state, "risk_assessment", Some(answer.text))

(* lines 285-310 *)
compile_analysis(state, answer) ==
  Put(state, "analysis_result",
      Some([document_metadata |-> Get(state, "document_metadata", PyNone),
            analysis_type |-> Get(state, "analysis_type", "unknown"),
            llm_provider |-> Get(state, "llm_provider", "unknown"),
            summary |-> Get(state, "summary", PyNone),
            key_points |-> Get(state, "key_points", Some(<<>>)),
            legal_issues |-> Get(state, "legal_issues", Some(<<>>)),
            entities |-> Get(state, "entities", Some({})),
            recommendations |-> Get(state, "recommendations", Some(<<>>)),
            risk_assessment |-> Get(state, "risk_assessment", PyNone),
            analysis_complete |-> TRUE]))

(* the edges of create_analysis_workflow, lines 334-340 *)
AnalysisNextNode(node) ==
  CASE node = "extract_summary" -> "extract_key_points"
    [] node = "extract_key_points" -> "identify_legal_issues"
    [] node = "identify_legal_issues" -> "extract_entities"
    [] node = "extract_entities" -> "generate_recommendations"
    [] node = "generate_recommendations" -> "assess_risk"
    [] node = "assess_risk" -> "compile_analysis"
    [] node = "compile_analysis" -> "done"

(* the answers of the LLM to a node: none when the node does not call it *)
LlmCall(calls) ==
  IF calls THEN LlmAnswers ELSE {[ok |-> TRUE, text |-> <<>>]}

(* what no node of the analysis graph touches *)
analysis_frame ==
  <<pc, limit, model_available, postgres_results, vector_results,
    hybrid_results, reranked_results, final_results, error, compute_scores,
    legal_vars, answer_vars>>

ExtractSummary ==
  /\ analysis_node = "extract_summary"
  /\ \E answer \in LlmCall(analysis_state["analysis_type"] \in {"summary", "full"}) :
       /\ analysis_state' = extract_summary(analysis_state, answer)
       /\ faults' = IF answer.ok THEN faults ELSE faults \cup {"llm"}
  /\ analysis_node' = AnalysisNextNode(analysis_node)
  /\ UNCHANGED analysis_frame

ExtractKeyPoints ==
  /\ analysis_node = "extract_key_points"
  /\ \E answer \in LlmCall(analysis_state["analysis_type"] \in {"key_points", "full"}) :
       /\ analysis_state' = extract_key_points(analysis_state, answer)
       /\ faults' = IF answer.ok THEN faults ELSE faults \cup {"llm"}
  /\ analysis_node' = AnalysisNextNode(analysis_node)
  /\ UNCHANGED analysis_frame

IdentifyLegalIssues ==
  /\ analysis_node = "identify_legal_issues"
  /\ \E answer \in LlmCall(analysis_state["analysis_type"] \in {"legal_issues", "full"}) :
       /\ analysis_state' = identify_legal_issues(analysis_state, answer)
       /\ faults' = IF answer.ok THEN faults ELSE faults \cup {"llm"}
  /\ analysis_node' = AnalysisNextNode(analysis_node)
  /\ UNCHANGED analysis_frame

ExtractEntities ==
  /\ analysis_node = "extract_entities"
  /\ \E answer \in LlmCall(analysis_state["analysis_type"] \in {"entities", "full"}) :
       /\ analysis_state' = extract_entities(analysis_state, answer)
       /\ faults' = IF answer.ok THEN faults ELSE faults \cup {"llm"}
  /\ analysis_node' = AnalysisNextNode(analysis_node)
  /\ UNCHANGED analysis_frame

GenerateRecommendations ==
  /\ analysis_node = "generate_recommendations"
  /\ \E answer \in LlmCall(TRUE) :
       /\ analysis_state' = generate_recommendations(analysis_state, answer)
       /\ faults' = IF answer.ok THEN faults ELSE faults \cup {"llm"}
  /\ analysis_node' = AnalysisNextNode(analysis_node)
  /\ UNCHANGED analysis_frame

AssessRisk ==
  /\ analysis_node = "assess_risk"
  /\ \E answer \in LlmCall(~Get(analysis_state, "legal_issues", Some(<<>>)).is_none) :
       /\ analysis_state' = assess_risk(analysis_state, answer)
       /\ faults' = IF answer.ok THEN faults ELSE faults \cup {"llm"}
  /\ analysis_node' = AnalysisNextNode(analysis_node)
  /\ UNCHANGED analysis_frame

CompileAnalysis ==
  /\ analysis_node = "compile_analysis"
  /\ \E answer \in LlmCall(FALSE) :
       /\ analysis_state' = compile_analysis(analysis_state, answer)
       /\ faults' = IF answer.ok THEN faults ELSE faults \cup {"llm"}
  /\ analysis_node' = AnalysisNextNode(analysis_node)
  /\ UNCHANGED analysis_frame

(* the initial state of main.py lines 185-198 *)
AnalysisInit ==
  /\ analysis_node = "extract_summary"
  /\ \E type \in AnalysisTypes, provider \in LlmProviders :
       analysis_state =
         [document_content |-> <<"text", 1>>,
          document_metadata |-> PyNone,
          analysis_type |-> type,
          llm_provider |-> provider,
          summary |-> PyNone,
          key_points |-> PyNone,
          legal_issues |-> PyNone,
          entities |-> PyNone,
          recommendations |-> PyNone,
          risk_assessment |-> PyNone,
          analysis_result |-> PyNone,
          error |-> PyNone]
  /\ pc = "done"
  /\ limit = 0
  /\ model_available = FALSE
  /\ postgres_results = <<>>
  /\ vector_results = <<>>
  /\ hybrid_results = <<>>
  /\ reranked_results = <<>>
  /\ final_results = <<>>
  /\ error = None
  /\ faults = {}
  /\ compute_scores = <<>>
  /\ graph = "none"
  /\ lw_node = "none"
  /\ legal_state = <<>>
  /\ store_answer = "unknown"
  /\ index_answer = "unknown"
  /\ search_steps = <<>>

AnalysisNext ==
  \/ ExtractSummary
  \/ ExtractKeyPoints
  \/ IdentifyLegalIssues
  \/ ExtractEntities
  \/ GenerateRecommendations
  \/ AssessRisk
  \/ CompileAnalysis

AnalysisSpec == AnalysisInit /\ [][AnalysisNext]_vars

----------------------------------------------------------------------------
(* Claims about the legal graph, checked under LegalSpec *)

(* C11: when building or invoking the retrieval graph fails inside        *)
(* run_retrieval, the run halts: the legal state has its error set, its   *)
(* result list is empty, and the only node that may still run is the      *)
(* error handler, never a step that works on retrieval results.           *)
C11_OrchestrationHalts ==
  "orchestration" \in faults =>
    /\ Truthy(Get(legal_state, "error", None))
    /\ Get(legal_state, "retrieved_docs", <<>>) = <<>>
    /\ final_results = <<>>
    /\ lw_node \in {"error_handler", "end"}

(* C12: what run_retrieval hands back carries the error next to the       *)
(* results: when a stage of the retrieval run recorded an error string,   *)
(* the legal state after run_retrieval has that string as its error and   *)
(* the final results as its retrieved documents.                          *)
C12_ErrorReturned ==
  (Get(legal_state, "current_step", None) = "retrieval_complete" /\ error # None) =>
    /\ Get(legal_state, "error", None) = error
    /\ Get(legal_state, "retrieved_docs", <<>>) = final_results

----------------------------------------------------------------------------
(* Claims about the order of the searches, checked under OrderSpec *)

(* what the cross-encoder answered in this run, read from the record *)
ScoringAnswer ==
  IF "scoring" \in faults
  THEN [outcome |-> "scoring", scores |-> <<>>]
  ELSE [outcome |-> "ok", scores |-> compute_scores]

(* the run with the lexical search first and the vector search second *)
SequentialRun ==
  RetrievalRun(limit, model_available, store_answer, index_answer, ScoringAnswer)

(* C20: the two searches do not depend on each other's data: for fixed    *)
(* answers of the store and of the index, the lists the searches leave,   *)
(* the fused list and the final list are those of the run with the        *)
(* lexical search first, whatever order the calls and the writes of the   *)
(* two searches took.                                                     *)
C20_OrderIndependent ==
  /\ pc = "combine_results" =>
       /\ postgres_results = PostgresStage(store_answer, limit).results
       /\ vector_results = VectorStage(index_answer, limit)
       /\ error = PostgresStage(store_answer, limit).error
  /\ Fused => hybrid_results = SequentialRun.hybrid_results
  /\ pc = "done" =>
       /\ final_results = SequentialRun.final_results
       /\ error = SequentialRun.error

(* both searches found a document, the vector search was called and wrote *)
(* between the call and the write of the lexical search, and the run      *)
(* ended with results                                                     *)
C20_Witness ==
  /\ pc = "done"
  /\ search_steps = <<"lexical_call", "vector_call", "vector_write", "lexical_write">>
  /\ store_answer.ok /\ store_answer.rows # <<>>
  /\ index_answer.outcome = "ok" /\ index_answer.hits # <<>>
  /\ Len(final_results) = Min(limit, Len(hybrid_results))
  /\ final_results # <<>>

----------------------------------------------------------------------------
(* Further claims about the retrieval graph, checked under Spec *)

(* the position of an id in a list that holds it *)
PosOf(list, id) == CHOOSE i \in 1..Len(list) : list[i]["id"] = id

(* the order in which combine_results enters the ids into combined_map:   *)
(* the lexical ids in lexical order, then the other vector ids in vector  *)
(* order                                                                  *)
InsertionPos(id) ==
  IF id \in IdSet(postgres_results)
  THEN PosOf(postgres_results, id)
  ELSE Len(postgres_results) + PosOf(vector_results, id)

(* the dict that combined_map holds for an id *)
FusedRecord(id) ==
  IF id \in IdSet(postgres_results)
  THEN postgres_results[PosOf(postgres_results, id)]
  ELSE vector_results[PosOf(vector_results, id)]

(* C21: ties of the fusion sort are broken by insertion: among fused      *)
(* candidates of equal sort key the lexical ones (also those promoted to  *)
(* hybrid) come in lexical order before the vector-only ones in vector    *)
(* order, and the truncation to limit drops from the end of that order.   *)
C21_StableTies ==
  Fused =>
    /\ \A i, j \in 1..Len(hybrid_results) :
         (i < j /\ SortKey(hybrid_results[i]) = SortKey(hybrid_results[j]))
           => InsertionPos(hybrid_results[i]["id"]) < InsertionPos(hybrid_results[j]["id"])
    /\ \A id \in (IdSet(postgres_results) \cup IdSet(vector_results))
                   \ IdSet(hybrid_results) :
         \A i \in 1..Len(hybrid_results) :
           \/ SortKey(hybrid_results[i]) > SortKey(FusedRecord(id))
           \/ /\ SortKey(hybrid_results[i]) = SortKey(FusedRecord(id))
              /\ InsertionPos(hybrid_results[i]["id"]) < InsertionPos(id)

(* a promoted lexical candidate ties with a vector-only candidate that    *)
(* the vector search ranked first, and the truncation dropped a candidate *)
C21_Witness ==
  /\ pc = "rerank_results"
  /\ Len(hybrid_results) >= 2
  /\ SortKey(hybrid_results[1]) = SortKey(hybrid_results[2])
  /\ hybrid_results[1]["search_type"] = "hybrid"
  /\ hybrid_results[2]["search_type"] = "vector"
  /\ vector_results[1]["id"] = hybrid_results[2]["id"]
  /\ IdSet(postgres_results) \ IdSet(hybrid_results) # {}

(* the stage in which a collaborator's failure happens *)
FaultStage(fault) ==
  CASE fault = "store" -> 1
    [] fault \in {"embedding", "index"} -> 2
    [] fault = "scoring" -> 4

(* the message the handler of that stage writes (lines 68, 93, 174) *)
FailureMessage(fault) ==
  CASE fault = "store" -> "PostgreSQL search error"
    [] fault \in {"embedding", "index"} -> "Vector search error"
    [] fault = "scoring" -> "Reranking error"

LastFault == CHOOSE f \in faults : \A g \in faults : FaultStage(g) <= FaultStage(f)

(* C22: error holds the most recent failure: when two or more stages      *)
(* failed in a run, error at the end is the message of the last stage     *)
(* that failed; a run in which an earlier stage failed and the later ones *)
(* succeeded still ends with that stage's message.                        *)
C22_MostRecentError ==
  (pc = "done" /\ faults # {}) =>
    IF Cardinality(faults) >= 2
    THEN error = FailureMessage(LastFault)
    ELSE "store" \in faults => error = FailureMessage("store")

(* C23: reranking degrades and never fails the run: when the reranking    *)
(* fails, reranked_results is the fused list hybrid_results in its fused  *)
(* order, error records the reranking failure, and finalize_results       *)
(* produces one final result per fused candidate.                         *)
C23_RerankDegrades ==
  ("scoring" \in faults /\ Reranked) =>
    /\ reranked_results = hybrid_results
    /\ error = FailureMessage("scoring")
    /\ pc = "done" => Ids(final_results) = Ids(hybrid_results)

(* C25: in final_results the relevance_score does not increase with the   *)
(* rank, when the reranker ran and when it was unavailable and the fused  *)
(* order was passed through.                                              *)
C25_RelevanceSorted ==
  pc = "done" =>
    \A i \in 1..Len(final_results) - 1 :
      final_results[i]["relevance_score"] >= final_results[i + 1]["relevance_score"]

(* the document that has the id *)
DocOf(id) == CHOOSE n \in DocIds : IdStr(n) = id

(* C26: every final result carries the title and the text of the document *)
(* with its id, whichever search found it; a candidate found by the       *)
(* vector search only has that document's text as full_content.           *)
C26_DocumentText ==
  pc = "done" =>
    \A i \in 1..Len(final_results) :
      /\ final_results[i]["title"] = DocTitle(DocOf(final_results[i]["id"]))
      /\ final_results[i]["full_content"] = DocContent(DocOf(final_results[i]["id"]))

(* C27: combine_results writes hybrid_results only: the records of        *)
(* postgres_results and vector_results are after the fusion what they     *)
(* were before it; rerank_results leaves the records of hybrid_results    *)
(* as they were.                                                          *)
C27_FrameEffect ==
  [][/\ pc = "combine_results" =>
          /\ postgres_results' = postgres_results
          /\ vector_results' = vector_results
     /\ pc = "rerank_results" => hybrid_results' = hybrid_results]_vars

(* the nodes of the retrieval graph and its end *)
StageNames == {StageOrder[i] : i \in 1..Len(StageOrder)}

----------------------------------------------------------------------------
(* Claim about the handler of finalize_results, checked under FormatSpec *)

(* C28: when the formatting of any one reranked candidate fails,          *)
(* final_results is the empty list, never the list of the candidates      *)
(* formatted before the failure, and error records the finalization       *)
(* failure; when none fails, final_results has one entry per candidate    *)
(* and error is what it was.                                              *)
C28_NoPartialList ==
  pc = "done" =>
    IF "formatting" \in faults
    THEN /\ final_results = <<>>
         /\ error = "Result finalization error"
    ELSE /\ Ids(final_results) = Ids(reranked_results)
         /\ error = (IF "store" \in faults THEN FailureMessage("store") ELSE None)

(* the formatting failed in a run that had two candidates to format *)
C28_Witness ==
  /\ pc = "done"
  /\ "formatting" \in faults
  /\ Len(reranked_results) >= 2
  /\ final_results = <<>>

----------------------------------------------------------------------------
(* Claim about the conditional legal graph, checked under LegalSpec *)

(* the nodes of the conditional graph in the order of its edges *)
LegalRank(node) ==
  CASE node = "retrieval" -> 1
    [] node = "analysis" -> 2
    [] node = "error_handler" -> 3
    [] node = "end" -> 4
    [] OTHER -> 0

ErrorSet(state) == Truthy(Get(state, "error", None))

(* C29: in the conditional graph the run goes after retrieval to          *)
(* error_handler exactly when the state's error is set and else to        *)
(* analysis, after analysis to error_handler exactly when the error is    *)
(* set and else to the end; should_continue never answers with a route    *)
(* that has no edge from the node that ran; every step goes forward in    *)
(* the order retrieval, analysis, error_handler, end, so each node runs   *)
(* at most once.                                                          *)
C29_ConditionalRoutes ==
  [][graph = "conditional" =>
       /\ lw_node = "retrieval" =>
            lw_node' = IF ErrorSet(legal_state') THEN "error_handler" ELSE "analysis"
       /\ lw_node = "analysis" =>
            lw_node' = IF ErrorSet(legal_state') THEN "error_handler" ELSE "end"
       /\ lw_node = "error_handler" => lw_node' = "end"
       /\ lw_node' # "no_edge"
       /\ LegalRank(lw_node') > LegalRank(lw_node)]_vars

(* a run of the conditional graph in which the analysis failed was routed *)
(* to the error handler and ended                                         *)
C29_Witness ==
  /\ graph = "conditional"
  /\ lw_node = "end"
  /\ "analysis_orchestration" \in faults
  /\ legal_state["current_step"] = "error_handled"

----------------------------------------------------------------------------
(* Claim about the analysis graph, checked under AnalysisSpec *)

(* C30: for every analysis type a run that starts from the callers'       *)
(* initial state and in which no LLM call fails ends with error unset     *)
(* and with analysis_result populated, analysis_complete being true.      *)
C30_AnalysisCompletes ==
  (analysis_node = "done" /\ "llm" \notin faults) =>
    /\ analysis_state["error"].is_none
    /\ ~analysis_state["analysis_result"].is_none
    /\ analysis_state["analysis_result"].value.analysis_complete

====
